---- MODULE Spec2Model ----
(***************************************************************************)
(* State-machine model of the AQI dashboard (frontend/src/App.jsx).        *)
(*                                                                         *)
(* The state is the React state of App: activeTab, form, result, loading,  *)
(* calcError, csvData, csvError; plus the two kinds of work that is        *)
(* outstanding between events: score requests awaiting the network         *)
(* (inflight) and Papa.parse calls awaiting their callback (parsing).      *)
(* Every event handler runs to completion (JavaScript is single threaded)  *)
(* and is one action; the continuation of handleSubmit after each await    *)
(* is an action of its own.  The derived chart and table data, which the   *)
(* component recomputes on every render, are operators over the state.     *)
(*                                                                         *)
(* Numbers: a form value is a decimal numeral; its value is kept as an     *)
(* integer count of units of 10^-FracDigits, exact for every numeral of    *)
(* at most MaxStrLen characters (binary rounding of doubles is not         *)
(* modelled).  A CSV cell value is an integer.                             *)
(***************************************************************************)
EXTENDS Integers, Sequences, FiniteSets, TLC

VARIABLES activeTab, form, result, loading, calcError, csvData, csvError,
          inflight, parsing

vars == <<activeTab, form, result, loading, calcError, csvData, csvError,
          inflight, parsing>>

calcVars == <<form, result, loading, calcError, inflight>>
csvVars == <<csvData, csvError, parsing>>

(***************************************************************************)
(* Bounds of the model.                                                    *)
(***************************************************************************)
\* longest text typed into one form field
MaxStrLen == 2
\* most form fields that are non-empty at once, of the forms enumerated
MaxFilled == 1
\* most score requests awaiting their response (reached only if the submit
\* control fails to block a second submission)
MaxInFlight == 2
\* most Papa.parse calls awaiting their callback
MaxParsing == 2
\* most cells (rows x columns) of an enumerated dataset
MaxCells == 4

(***************************************************************************)
(* JavaScript values.                                                      *)
(***************************************************************************)
Null == [null |-> TRUE]
Undefined == [undefined |-> TRUE]
NaN == [nan |-> TRUE]
Num(n) == [num |-> n]
Str(s) == [str |-> s]

IsNum(v) == DOMAIN v = {"num"}

\* a ?? b
Nullish(a, b) == IF a = Null \/ a = Undefined THEN b ELSE a

\* typeof v === "number" && !Number.isNaN(v)
IsNumberCell(v) == IsNum(v)

RECURSIVE Pow10(_)
Pow10(n) == IF n = 0 THEN 1 ELSE 10 * Pow10(n - 1)

(***************************************************************************)
(* Tabs.                                                                   *)
(***************************************************************************)
TABS == <<"overview", "chemistry", "charts", "health", "data">>
TabIds == {TABS[i] : i \in 1..Len(TABS)}

(***************************************************************************)
(* Form text and parseFloat.                                               *)
(*                                                                         *)
(* Text is a sequence of one-character strings.  The characters that are   *)
(* typed are those of Alphabet: a sign, a point, two digits and a letter.  *)
(* Exponents and white space are not typed.                                *)
(***************************************************************************)
Alphabet == {"-", ".", "0", "7", "a"}
Digits == {"0", "1", "2", "3", "4", "5", "6", "7", "8", "9"}
FracDigits == MaxStrLen
Scale == Pow10(FracDigits)

DigitVal(c) ==
  CASE c = "0" -> 0 [] c = "1" -> 1 [] c = "2" -> 2 [] c = "3" -> 3
    [] c = "4" -> 4 [] c = "5" -> 5 [] c = "6" -> 6 [] c = "7" -> 7
    [] c = "8" -> 8 [] c = "9" -> 9

RECURSIVE LeadingDigits(_)
LeadingDigits(s) ==
  IF s = <<>> \/ Head(s) \notin Digits THEN <<>>
  ELSE <<Head(s)>> \o LeadingDigits(Tail(s))

RECURSIVE DigitsValue(_)
DigitsValue(d) ==
  IF d = <<>> THEN 0
  ELSE 10 * DigitsValue(SubSeq(d, 1, Len(d) - 1)) + DigitVal(d[Len(d)])

\* parseFloat(s): the longest prefix that is a decimal literal (sign,
\* digits, point, digits); NaN when that prefix holds no digit.
ParseFloat(s) ==
  LET signed == s # <<>> /\ Head(s) \in {"-", "+"}
      neg == s # <<>> /\ Head(s) = "-"
      body == IF signed THEN Tail(s) ELSE s
      ip == LeadingDigits(body)
      rest == SubSeq(body, Len(ip) + 1, Len(body))
      fp == IF rest # <<>> /\ Head(rest) = "." THEN LeadingDigits(Tail(rest))
            ELSE <<>>
      mag == DigitsValue(ip) * Scale
             + DigitsValue(fp) * Pow10(FracDigits - Len(fp))
  IN IF ip = <<>> /\ fp = <<>> THEN NaN
     ELSE Num(IF neg THEN 0 - mag ELSE mag)

\* x || 0 for a number x: NaN and 0 are falsy
OrZeroDropped(x) == x
OrZeroClampsNegative(x) == IF x = NaN \/ x.num <= 0 THEN Num(0) ELSE x
OrZero(x) == IF x = NaN \/ x = Num(0) THEN Num(0) ELSE x

\* <input type="number">: the value the element reports is the typed text
\* when that is a valid floating-point number, and "" otherwise.
IsValidFloat(s) ==
  LET body == IF s # <<>> /\ Head(s) = "-" THEN Tail(s) ELSE s
      ip == LeadingDigits(body)
      rest == SubSeq(body, Len(ip) + 1, Len(body))
  IN \/ ip # <<>> /\ rest = <<>>
     \/ /\ rest # <<>>
        /\ Head(rest) = "."
        /\ Tail(rest) # <<>>
        /\ LeadingDigits(Tail(rest)) = Tail(rest)

NumberInputValue(typed) == IF IsValidFloat(typed) THEN typed ELSE <<>>

TextUpTo(n) == UNION {[1..k -> Alphabet] : k \in 0..n}
TypedStrings == TextUpTo(MaxStrLen)
InputValues == {NumberInputValue(t) : t \in TypedStrings}

(***************************************************************************)
(* Calculator state and handlers.                                          *)
(***************************************************************************)
FieldNames == {"pm25", "pm10", "so2", "no2", "co", "o3"}

EmptyForm == [n \in FieldNames |-> <<>>]

CalcFailedMsg == "Failed to calculate AQI. Is the FastAPI backend running?"

\* the records the scoring service answers with
ScoreResults ==
  { [aqi |-> 10, category |-> "Good", dominant_pollutant |-> "PM2.5",
     chemistry_note |-> "..."],
    [aqi |-> 320, category |-> "Very Poor", dominant_pollutant |-> "PM10",
     chemistry_note |-> "coarse particles"] }

\* a response body that does not parse as JSON
NotJson == [notjson |-> TRUE]

\* the responses of the scoring service: success with a body, or another
\* status
Responses ==
  {[ok |-> TRUE, body |-> b] : b \in ScoreResults \cup {NotJson}}
    \cup {[ok |-> FALSE, body |-> NotJson]}

\* handleChange
HandleChange(name, value) ==
  /\ form' = [form EXCEPT ![name] = value]
  /\ UNCHANGED <<activeTab, result, loading, calcError, inflight, csvVars>>

\* the payload object built in handleSubmit
Payload(f) ==
  [pm25 |-> OrZero(ParseFloat(f.pm25)),
   pm10 |-> OrZero(ParseFloat(f.pm10)),
   so2 |-> OrZero(ParseFloat(f.so2)),
   no2 |-> OrZero(ParseFloat(f.no2)),
   co |-> OrZero(ParseFloat(f.co)),
   o3 |-> OrZero(ParseFloat(f.o3))]

\* handleSubmit up to its first await: the three state updates, the payload
\* and the fetch.  The request keeps the form text it was built from.
HandleSubmitNoLoading ==
  /\ calcError' = ""
  /\ result' = Null
  /\ inflight' = Append(inflight,
                        [payload |-> Payload(form), from |-> form,
                         stage |-> "fetch", body |-> Undefined])
  /\ UNCHANGED <<activeTab, form, loading, csvVars>>
HandleSubmitKeepsResult ==
  /\ loading' = TRUE
  /\ calcError' = ""
  /\ inflight' = Append(inflight,
                        [payload |-> Payload(form), from |-> form,
                         stage |-> "fetch", body |-> Undefined])
  /\ UNCHANGED <<activeTab, form, result, csvVars>>
HandleSubmit ==
  /\ loading' = TRUE
  /\ calcError' = ""
  /\ result' = Null
  /\ inflight' = Append(inflight,
                        [payload |-> Payload(form), from |-> form,
                         stage |-> "fetch", body |-> Undefined])
  /\ UNCHANGED <<activeTab, form, csvVars>>

Without(q, i) == SubSeq(q, 1, i - 1) \o SubSeq(q, i + 1, Len(q))

\* catch + finally of handleSubmit
SubmitFailedKeepsLoading(i) ==
  /\ calcError' = CalcFailedMsg
  /\ inflight' = Without(inflight, i)
  /\ UNCHANGED <<activeTab, form, result, loading, csvVars>>
SubmitFailed(i) ==
  /\ calcError' = CalcFailedMsg
  /\ loading' = FALSE
  /\ inflight' = Without(inflight, i)
  /\ UNCHANGED <<activeTab, form, result, csvVars>>

\* fetch resolved with response `res`; a response that is not ok throws
FetchResolves(i, res) ==
  /\ i \in 1..Len(inflight)
  /\ inflight[i].stage = "fetch"
  /\ IF res.ok
     THEN /\ inflight' = [inflight EXCEPT ![i].stage = "json",
                                          ![i].body = res.body]
          /\ UNCHANGED <<activeTab, form, result, loading, calcError, csvVars>>
     ELSE SubmitFailed(i)

\* fetch rejected (transport failure)
FetchRejects(i) ==
  /\ i \in 1..Len(inflight)
  /\ inflight[i].stage = "fetch"
  /\ SubmitFailed(i)

\* res.json() resolved: setResult(data), then finally
JsonResolvesKeepsLoading(i) ==
  /\ i \in 1..Len(inflight)
  /\ inflight[i].stage = "json"
  /\ inflight[i].body # NotJson
  /\ result' = inflight[i].body
  /\ inflight' = Without(inflight, i)
  /\ UNCHANGED <<activeTab, form, loading, calcError, csvVars>>
JsonResolves(i) ==
  /\ i \in 1..Len(inflight)
  /\ inflight[i].stage = "json"
  /\ inflight[i].body # NotJson
  /\ result' = inflight[i].body
  /\ loading' = FALSE
  /\ inflight' = Without(inflight, i)
  /\ UNCHANGED <<activeTab, form, calcError, csvVars>>

\* res.json() rejected (the body is not JSON)
JsonRejects(i) ==
  /\ i \in 1..Len(inflight)
  /\ inflight[i].stage = "json"
  /\ inflight[i].body = NotJson
  /\ SubmitFailed(i)

(***************************************************************************)
(* The controls of the page.                                               *)
(***************************************************************************)
\* setActiveTab, from either tab bar
SetActiveTab(t) ==
  /\ activeTab' = t
  /\ UNCHANGED <<calcVars, csvVars>>

\* <button type="submit" disabled={loading}>
SubmitNeverDisabled == FALSE
SubmitDisabled == loading

\* the calculator form exists only while the overview tab is shown
FormShown == activeTab = "overview"

\* typing into one of the six number inputs
TypeInField(name, typed) ==
  /\ FormShown
  /\ HandleChange(name, NumberInputValue(typed))

\* submitting the form
SubmitForm ==
  /\ FormShown
  /\ ~SubmitDisabled
  /\ Len(inflight) < MaxInFlight
  /\ HandleSubmit

(***************************************************************************)
(* Datasets.                                                               *)
(*                                                                         *)
(* A Row Record is an object whose keys are in header order: keys is       *)
(* Object.keys(row), val maps each key to its cell.  Papa.parse with       *)
(* dynamicTyping gives number cells, string cells and null for an empty    *)
(* cell; a line with fewer fields than the header gives a row that lacks   *)
(* the trailing keys.                                                      *)
(***************************************************************************)
CellAt(row, key) == IF key \in DOMAIN row.val THEN row.val[key] ELSE Undefined

Cells == {Num(0), Num(1), Num(3), Str("a"), Null}

Range(s) == {s[i] : i \in 1..Len(s)}

pollutantKeys == <<"PM2_5", "PM10", "NO2", "SO2", "O3", "CO">>

OneColHeaders == {<<c>> : c \in Range(pollutantKeys) \cup {"AQI", "aqi", "foo"}}
TwoColHeaders ==
  {<<"AQI", "aqi">>, <<"date", "AQI">>, <<"foo", "bar">>,
   <<"PM2_5", "PM10">>, <<"CO", "aqi">>}

\* the rows a line under header h parses to: one cell per column, or only
\* the leading columns when the line is short
RowsOver(h) ==
  UNION {{[keys |-> SubSeq(h, 1, k), val |-> v] :
            v \in [Range(SubSeq(h, 1, k)) -> Cells]} : k \in 1..Len(h)}

DatasetsOver(h) ==
  UNION {[1..n -> RowsOver(h)] : n \in 1..(MaxCells \div Len(h))}

\* a dataset with all the recognised columns; row i holds i times the
\* column's position among the pollutant keys
FullHeader == <<"date", "AQI", "PM2_5", "PM10", "NO2", "SO2", "O3", "CO">>
FullRow(i) ==
  [keys |-> FullHeader,
   val |-> [c \in Range(FullHeader) |->
              IF c = "date" THEN Str("d")
              ELSE IF c = "AQI" THEN Num(40 + i)
              ELSE Num(i * (CHOOSE k \in 1..Len(pollutantKeys) :
                              pollutantKeys[k] = c))]]
FullDataset(n) == [i \in 1..n |-> FullRow(i)]

\* a long dataset of dated AQI readings, the i-th reading being i
LongDataset(n) ==
  [i \in 1..n |->
     [keys |-> <<"date", "AQI">>,
      val |-> [c \in {"date", "AQI"} |->
                 IF c = "date" THEN Str("d") ELSE Num(i)]]]

\* DataTab shows at most this many rows
TableLimit == 80

LongLengths == {TableLimit - 1, TableLimit, TableLimit + 1, 500}

Datasets ==
  UNION {DatasetsOver(h) : h \in OneColHeaders \cup TwoColHeaders}
    \cup {FullDataset(n) : n \in {1, 2}}
    \cup {LongDataset(n) : n \in LongLengths}

(***************************************************************************)
(* Files and the upload handler.                                           *)
(***************************************************************************)
NoFile == [nofile |-> TRUE]
Unreadable == [readable |-> FALSE, rows |-> <<>>]
CsvFile(rows) == [readable |-> TRUE, rows |-> rows]

CsvEmptyMsg == "CSV is empty or invalid."
CsvReadMsg == "Could not read CSV file."

\* the files offered to the two file inputs
Files ==
  {Unreadable, CsvFile(<<>>), CsvFile(FullDataset(2)),
   CsvFile(<<[keys |-> <<"foo", "bar">>,
              val |-> [foo |-> Num(1), bar |-> Str("a")]]>>)}

\* handleFileUpload with e.target.files[0] = file
HandleFileUploadClearsFirst(file) ==
  IF file = NoFile
  THEN csvError' = "" /\ UNCHANGED <<activeTab, calcVars, csvData, parsing>>
  ELSE /\ csvError' = ""
       /\ parsing' = Append(parsing, file)
       /\ UNCHANGED <<activeTab, calcVars, csvData>>
HandleFileUpload(file) ==
  IF file = NoFile
  THEN UNCHANGED vars
  ELSE /\ csvError' = ""
       /\ parsing' = Append(parsing, file)
       /\ UNCHANGED <<activeTab, calcVars, csvData>>

\* the complete callback of the i-th outstanding Papa.parse
ParseCompleteKeepsData(i) ==
  /\ i \in 1..Len(parsing)
  /\ parsing[i].readable
  /\ parsing' = Without(parsing, i)
  /\ IF Len(parsing[i].rows) = 0
     THEN csvError' = CsvEmptyMsg /\ UNCHANGED csvData
     ELSE csvData' = parsing[i].rows /\ UNCHANGED csvError
  /\ UNCHANGED <<activeTab, calcVars>>
ParseComplete(i) ==
  /\ i \in 1..Len(parsing)
  /\ parsing[i].readable
  /\ parsing' = Without(parsing, i)
  /\ IF Len(parsing[i].rows) = 0
     THEN csvError' = CsvEmptyMsg /\ csvData' = <<>>
     ELSE csvData' = parsing[i].rows /\ UNCHANGED csvError
  /\ UNCHANGED <<activeTab, calcVars>>

\* the error callback of the i-th outstanding Papa.parse
ParseError(i) ==
  /\ i \in 1..Len(parsing)
  /\ ~parsing[i].readable
  /\ parsing' = Without(parsing, i)
  /\ csvError' = CsvReadMsg
  /\ csvData' = <<>>
  /\ UNCHANGED <<activeTab, calcVars>>

\* choosing a file (or none) in the sidebar input or the one of the data tab
ChooseFile(file) ==
  /\ Len(parsing) < MaxParsing
  /\ HandleFileUpload(file)

(***************************************************************************)
(* Derived data, recomputed from csvData on every render.                  *)
(***************************************************************************)
\* a || b: null, undefined, "", 0 and NaN are falsy
Truthy(v) ==
  ~(v = Null \/ v = Undefined \/ v = NaN \/ v = Num(0) \/ v = Str(""))

\* `Reading ${i + 1}`, for the row at position i counted from 1
ReadingLabel(i) == [reading |-> i]

\* r.AQI ?? r.aqi ?? 0
AqiValue(r) == Nullish(CellAt(r, "AQI"), Nullish(CellAt(r, "aqi"), Num(0)))

\* aqiLineData: null, or the labels and the data of its one dataset
aqiLineData ==
  IF Len(csvData) > 0
  THEN [labels |-> [i \in 1..Len(csvData) |->
                      IF Truthy(CellAt(csvData[i], "date"))
                      THEN CellAt(csvData[i], "date")
                      ELSE ReadingLabel(i)],
        data |-> [i \in 1..Len(csvData) |-> AqiValue(csvData[i])]]
  ELSE Null

\* a quotient of integers a / b (b > 0), in lowest terms
RECURSIVE GCD(_, _)
GCD(a, b) == IF b = 0 THEN a ELSE GCD(b, a % b)
Abs(a) == IF a < 0 THEN 0 - a ELSE a
Quotient(a, b) ==
  LET g == GCD(Abs(a), b) IN [n |-> a \div g, d |-> b \div g]

\* vals.reduce((a, b) => a + b, 0)
RECURSIVE SumCells(_)
SumCells(vals) ==
  IF vals = <<>> THEN 0 ELSE vals[1].num + SumCells(Tail(vals))

\* one element of pollutantMeans
MeanOverAllRows(key) ==
  LET vals == SelectSeq([i \in 1..Len(csvData) |-> CellAt(csvData[i], key)],
                        IsNumberCell)
  IN IF Len(vals) = 0 THEN Quotient(0, 1)
     ELSE Quotient(SumCells(vals), Len(csvData))
MeanOfKey(key) ==
  LET vals == SelectSeq([i \in 1..Len(csvData) |-> CellAt(csvData[i], key)],
                        IsNumberCell)
  IN IF Len(vals) = 0 THEN Quotient(0, 1)
     ELSE Quotient(SumCells(vals), Len(vals))

pollutantMeans ==
  IF Len(csvData) > 0
  THEN [k \in 1..Len(pollutantKeys) |-> MeanOfKey(pollutantKeys[k])]
  ELSE <<>>

\* ChartsTab: which of the two branches of `aqiLineData ? <Line/> : <p>`
\* is rendered while a dataset is loaded
NoAqiColumnShown == Len(csvData) > 0 /\ aqiLineData = Null

\* Array.prototype.slice(start, end) for 0 <= start <= end
Min(a, b) == IF a < b THEN a ELSE b
SliceToEnd(a, start, end) == SubSeq(a, start + 1, Len(a))
Slice(a, start, end) == SubSeq(a, start + 1, Min(end, Len(a)))

\* DataTab: the header cells and the rows of the table body
TableHeaders ==
  IF Len(csvData) > 0 THEN csvData[1].keys ELSE <<"No data loaded">>
TableBody == Slice(csvData, 0, TableLimit)
\* String(row[h] ?? "") before the conversion to text
TableCell(row, h) == Nullish(CellAt(row, h), Str(""))

(***************************************************************************)
(* The application.                                                        *)
(***************************************************************************)
Init ==
  /\ activeTab = "overview"
  /\ form = EmptyForm
  /\ result = Null
  /\ loading = FALSE
  /\ calcError = ""
  /\ csvData = <<>>
  /\ csvError = ""
  /\ inflight = <<>>
  /\ parsing = <<>>

\* what is typed in the application run: a number, a negative number and
\* text that is no number, into the first and the last field
TypedSamples == {<<"7">>, <<"-", "7">>, <<"a">>}
TypedFields == {"pm25", "o3"}

NextCalc ==
  \/ \E n \in TypedFields, t \in TypedSamples : TypeInField(n, t)
  \/ SubmitForm
  \/ \E i \in 1..Len(inflight), res \in Responses : FetchResolves(i, res)
  \/ \E i \in 1..Len(inflight) : FetchRejects(i)
  \/ \E i \in 1..Len(inflight) : JsonResolves(i)
  \/ \E i \in 1..Len(inflight) : JsonRejects(i)

NextCsv ==
  \/ \E f \in Files \cup {NoFile} : ChooseFile(f)
  \/ \E i \in 1..Len(parsing) : ParseComplete(i)
  \/ \E i \in 1..Len(parsing) : ParseError(i)

Next ==
  \/ \E t \in TabIds : SetActiveTab(t)
  \/ NextCalc
  \/ NextCsv

Spec == Init /\ [][Next]_vars

(***************************************************************************)
(* Every form the six inputs can hold (within the bounds), submitted.      *)
(***************************************************************************)
Forms ==
  UNION {{[n \in FieldNames |-> IF n \in S THEN g[n] ELSE <<>>] :
            g \in [S -> InputValues]} :
         S \in {T \in SUBSET FieldNames : Cardinality(T) <= MaxFilled}}

InitForms ==
  /\ activeTab = "overview"
  /\ form \in Forms
  /\ result = Null
  /\ loading = FALSE
  /\ calcError = ""
  /\ csvData = <<>>
  /\ csvError = ""
  /\ inflight = <<>>
  /\ parsing = <<>>

NextForms ==
  \/ SubmitForm
  \/ \E i \in 1..Len(inflight), res \in Responses : FetchResolves(i, res)
  \/ \E i \in 1..Len(inflight) : FetchRejects(i)
  \/ \E i \in 1..Len(inflight) : JsonResolves(i)
  \/ \E i \in 1..Len(inflight) : JsonRejects(i)

SpecForms == InitForms /\ [][NextForms]_vars

(***************************************************************************)
(* Every dataset (within the bounds) loaded, and each tab shown.           *)
(***************************************************************************)
InitViews ==
  /\ activeTab = "overview"
  /\ form = EmptyForm
  /\ result = Null
  /\ loading = FALSE
  /\ calcError = ""
  /\ csvData \in Datasets
  /\ csvError = ""
  /\ inflight = <<>>
  /\ parsing = <<>>

NextViews == \E t \in TabIds : SetActiveTab(t)

SpecViews == InitViews /\ [][NextViews]_vars

(***************************************************************************)
(* Properties of the calculation lifecycle.                                *)
(***************************************************************************)

C2_SingleSubmissionOutcome ==
  [][(Len(inflight) = 1 /\ inflight' = <<>>) =>
       IF inflight[1].stage = "json" /\ inflight[1].body \in ScoreResults
       THEN result' = inflight[1].body /\ calcError' = "" /\ loading' = FALSE
       ELSE calcError' # "" /\ result' = Null /\ loading' = FALSE]_vars

\* the lifecycle has ended Failed
C2_Failed ==
  calcError = CalcFailedMsg /\ result = Null /\ ~loading /\ inflight = <<>>

\* C10: the step that starts a submission leaves result null, calcError
\* empty and loading true, with the new request still awaiting its response;
\* the step that takes in a successful response makes result that response's
\* record, whatever result was.
C10_SubmissionResets ==
  [][/\ Len(inflight') > Len(inflight) =>
          /\ result' = Null
          /\ calcError' = ""
          /\ loading' = TRUE
          /\ inflight'[Len(inflight')].stage = "fetch"
     /\ \A i \in 1..Len(inflight) :
          (/\ inflight' = Without(inflight, i)
           /\ inflight[i].stage = "json"
           /\ inflight[i].body \in ScoreResults)
            => result' = inflight[i].body]_vars

\* a submission has started and no response has arrived
C10_Pending ==
  /\ loading
  /\ result = Null
  /\ calcError = ""
  /\ Len(inflight) = 1
  /\ inflight[1].stage = "fetch"

(***************************************************************************)
(* Properties of the request payload.                                      *)
(***************************************************************************)
\* s is a decimal numeral: digits with at most one point, a sign only in
\* front
IsNumeral(s) ==
  /\ \E i \in 1..Len(s) : s[i] \in Digits
  /\ \A i \in 1..Len(s) : s[i] \in Digits \cup {".", "-"}
  /\ \A i \in 2..Len(s) : s[i] # "-"
  /\ Cardinality({i \in 1..Len(s) : s[i] = "."}) <= 1

RECURSIVE SumWeights(_, _)
SumWeights(s, I) ==
  IF I = {} THEN 0
  ELSE LET i == CHOOSE j \in I : TRUE
           dot == IF \E j \in 1..Len(s) : s[j] = "."
                  THEN CHOOSE j \in 1..Len(s) : s[j] = "."
                  ELSE Len(s) + 1
           w == IF i < dot THEN Pow10(FracDigits + dot - 1 - i)
                ELSE Pow10(FracDigits - (i - dot))
       IN DigitVal(s[i]) * w + SumWeights(s, I \ {i})

\* the value of the numeral s, digit by digit, in units of 10^-FracDigits
DecimalValue(s) ==
  LET mag == SumWeights(s, {i \in 1..Len(s) : s[i] \in Digits})
  IN IF s[1] = "-" THEN 0 - mag ELSE mag

\* C7: each of the six fields of a submitted payload is 0 when the form
\* field it is named after is empty or not a number, and is that field's
\* numeric value otherwise.
C7_PayloadFromForm ==
  \A i \in 1..Len(inflight) : \A n \in FieldNames :
    inflight[i].payload[n] =
      IF IsNumeral(inflight[i].from[n])
      THEN Num(DecimalValue(inflight[i].from[n]))
      ELSE Num(0)

\* a request whose so2 field was entered as .7 and whose pm25 field was
\* left empty
C7_FractionSubmitted ==
  /\ Len(inflight) = 1
  /\ inflight[1].from.so2 = <<".", "7">>
  /\ inflight[1].payload.so2 = Num(7 * (Scale \div 10))
  /\ inflight[1].from.pm25 = <<>>
  /\ inflight[1].payload.pm25 = Num(0)

\* C8 as claimed: every field of every submitted payload is >= 0.
C8_PayloadNonNegative ==
  \A i \in 1..Len(inflight) : \A n \in FieldNames :
    inflight[i].payload[n].num >= 0

\* C8 as amended: an empty field is submitted as 0, and a negative entry is
\* submitted as entered, so a payload field is negative exactly when the
\* entry is a negative number.
C8_NegativePassedThrough ==
  \A i \in 1..Len(inflight) : \A n \in FieldNames :
    LET s == inflight[i].from[n]
        v == inflight[i].payload[n]
    IN /\ s = <<>> => v = Num(0)
       /\ v.num < 0 <=> (IsNumeral(s) /\ DecimalValue(s) < 0)
       /\ v.num < 0 => v.num = DecimalValue(s)

\* a request carrying a negative concentration
C8_NegativeSubmitted ==
  \E i \in 1..Len(inflight) :
    /\ inflight[i].from.co = <<"-", "7">>
    /\ inflight[i].payload.co = Num(0 - 7 * Scale)

(***************************************************************************)
(* Properties of the dataset and of the data derived from it.              *)
(***************************************************************************)
HasAqiColumn ==
  \E i \in 1..Len(csvData) : {"AQI", "aqi"} \cap Range(csvData[i].keys) # {}

\* C3: a non-empty dataset with neither an AQI nor an aqi column has no AQI
\* line view: aqiLineData is null and "No AQI column detected" is shown.
C3_NoAqiColumnNoView ==
  (Len(csvData) > 0 /\ ~HasAqiColumn)
    => (aqiLineData = Null /\ NoAqiColumnShown)

NumericRows(key) ==
  {i \in 1..Len(csvData) : IsNum(CellAt(csvData[i], key))}

RECURSIVE SumRows(_, _)
SumRows(key, I) ==
  IF I = {} THEN 0
  ELSE LET i == CHOOSE j \in I : TRUE
       IN csvData[i].val[key].num + SumRows(key, I \ {i})

\* C4: for a non-empty dataset, the k-th mean is that of the k-th column of
\* PM2_5, PM10, NO2, SO2, O3, CO: the sum of the column's numeric cells over
\* their count, other cells left out; 0 when the column has no numeric cell.
C4_MeanIsSumOverCount ==
  Len(csvData) > 0 =>
    /\ Len(pollutantMeans) = 6
    /\ \A k \in 1..6 :
         LET key == <<"PM2_5", "PM10", "NO2", "SO2", "O3", "CO">>[k]
             I == NumericRows(key)
             m == pollutantMeans[k]
         IN /\ m.d > 0
            /\ IF I = {} THEN m.n = 0
               ELSE m.n * Cardinality(I) = SumRows(key, I) * m.d

\* the cells 1, "a", 3 of column PM2_5 have mean 2
C4_MeanSkipsText ==
  /\ Len(csvData) = 3
  /\ CellAt(csvData[1], "PM2_5") = Num(1)
  /\ CellAt(csvData[2], "PM2_5") = Str("a")
  /\ CellAt(csvData[3], "PM2_5") = Num(3)
  /\ pollutantMeans[1] = [n |-> 2, d |-> 1]

\* C5: the callback of a parse that yields no rows, or of a file that
\* cannot be read, leaves csvData empty and csvError non-empty, whatever
\* csvData held.
C5_EmptyOrUnreadableClears ==
  [][\A i \in 1..Len(parsing) :
       (/\ parsing' = Without(parsing, i)
        /\ (~parsing[i].readable \/ Len(parsing[i].rows) = 0))
         => (csvData' = <<>> /\ csvError' # "")]_vars

\* an empty CSV has been reported; nothing is loaded
C5_EmptyReported ==
  csvError = CsvEmptyMsg /\ csvData = <<>> /\ parsing = <<>>

\* C6: the table body is the first min(n, 80) rows of the n loaded rows, in
\* order (80 of 500), and the table header is the key list of the first row.
C6_TableIsFirstEighty ==
  Len(csvData) > 0 =>
    /\ Len(TableBody) = Min(Len(csvData), 80)
    /\ \A i \in 1..Len(TableBody) : TableBody[i] = csvData[i]
    /\ Len(csvData) = 500 => Len(TableBody) = 80
    /\ TableHeaders = csvData[1].keys

\* 500 rows are loaded and the data tab shows 80 of them
C6_FiveHundredRows ==
  Len(csvData) = 500 /\ Len(TableBody) = 80 /\ activeTab = "data"

NumericAqiOrZero(r) ==
  IF IsNum(CellAt(r, "AQI")) THEN CellAt(r, "AQI")
  ELSE IF IsNum(CellAt(r, "aqi")) THEN CellAt(r, "aqi")
  ELSE Num(0)

\* C9: the AQI series has one value per row, in row order: the row's AQI
\* cell if it is a number, else its aqi cell if that is a number, else 0.
C9_AqiSeriesNumeric ==
  Len(csvData) > 0 =>
    /\ Len(aqiLineData.data) = Len(csvData)
    /\ \A i \in 1..Len(csvData) :
         aqiLineData.data[i] = NumericAqiOrZero(csvData[i])

(***************************************************************************)
(* Properties of overlapping work.                                         *)
(***************************************************************************)

\* C12: while a score request awaits its response the pending indicator is
\* shown and the submit control is disabled, so there is never a second
\* request in flight.
C12_PendingBlocksSubmit ==
  inflight # <<>> => (loading /\ SubmitDisabled /\ Len(inflight) = 1)

\* the response headers of the pending request are in, its body is awaited,
\* and the form is on display with its submit control disabled
C12_PendingOnOverview ==
  /\ Len(inflight) = 1
  /\ inflight[1].stage = "json"
  /\ FormShown
  /\ SubmitDisabled

\* C14: a CSV error message is never shown together with a loaded dataset:
\* csvError non-empty implies csvData empty.
C14_NoCsvErrorWithData == csvError # "" => csvData = <<>>

(***************************************************************************)
(* The calculation lifecycle under a network that answers.                 *)
(*                                                                         *)
(* Respond is the next continuation of some handleSubmit call: its fetch   *)
(* settles or its body is read.  A settled promise's continuation is run   *)
(* by the event loop, so Respond is taken once it stays enabled; that the  *)
(* network settles every fetch is the assumption of a live service.        *)
(***************************************************************************)
Respond ==
  \E i \in 1..Len(inflight) :
    \/ \E res \in Responses : FetchResolves(i, res)
    \/ FetchRejects(i)
    \/ JsonResolves(i)
    \/ JsonRejects(i)

NextLive ==
  \/ \E t \in TabIds : SetActiveTab(t)
  \/ NextCalc

SpecLive == Init /\ [][NextLive]_vars /\ WF_vars(Respond)

Succeeded == ~loading /\ result # Null /\ calcError = ""
Failed == ~loading /\ result = Null /\ calcError # ""

\* C13: once a submission is pending (loading), a state follows in which
\* loading is false and exactly one of result non-null, calcError non-empty
\* holds; and the step that ends loading ends in such a state.
C13_PendingEndsOneWay ==
  /\ loading ~> (Succeeded \/ Failed)
  /\ [][(loading /\ ~loading') => (Succeeded' \/ Failed')]_vars

\* a lifecycle that has ended Succeeded for a form with an entry
C13_SucceededWithEntry ==
  Succeeded /\ inflight = <<>> /\ form.pm25 = <<"7">>

(***************************************************************************)
(* Independence of the calculator, the dataset and the tabs.               *)
(*                                                                         *)
(* Every step of handleSubmit changes inflight (a request is added, moves  *)
(* on to its body or ends); every upload of a file and every parse         *)
(* callback changes parsing.                                               *)
(***************************************************************************)

\* C15: a step of handleSubmit leaves csvData and csvError as they are; a
\* step of handleFileUpload or of a parse callback leaves form, result,
\* loading and calcError as they are; a change of tab changes nothing else;
\* and csvData and csvError change in no other step, so an upload event
\* with no file selected changes nothing (csvError is not cleared).
C15_CalculatorAndDatasetIndependent ==
  [][/\ inflight' # inflight => UNCHANGED <<csvData, csvError, parsing>>
     /\ parsing' # parsing => UNCHANGED <<form, result, loading, calcError>>
     /\ activeTab' # activeTab => UNCHANGED <<calcVars, csvVars>>
     /\ (csvData' # csvData \/ csvError' # csvError) => parsing' # parsing
     /\ (result' # result \/ loading' # loading \/ calcError' # calcError)
          => inflight' # inflight]_vars

\* a CSV error stands, nothing is being parsed (so an upload event with no
\* file would find it), and the calculator shows a result on another tab
C15_ErrorStandsBesideResult ==
  /\ csvError # ""
  /\ parsing = <<>>
  /\ result # Null
  /\ activeTab = "data"

(***************************************************************************)
(* handleSubmit called while a request is pending.                         *)
(*                                                                         *)
(* handleSubmit itself tests nothing before it starts a request; only the  *)
(* disabled submit control keeps the page from calling it while loading.   *)
(* SpecUnguarded drives the handler without that control (as a script      *)
(* calling form.requestSubmit() would), to show what overlapping requests  *)
(* would do.  No state with two requests in flight is reachable in Spec.   *)
(***************************************************************************)
SubmitUnguarded ==
  /\ FormShown
  /\ Len(inflight) < MaxInFlight
  /\ HandleSubmit

NextUnguarded ==
  \/ SubmitUnguarded
  \/ \E t \in TabIds : SetActiveTab(t)
  \/ NextCalc

SpecUnguarded == Init /\ [][NextUnguarded]_vars

\* C11: when the last of the requests in flight is answered, result and
\* calcError are those its response alone determines: its record and no
\* error if it succeeded, an error and no result if it failed.
C11_LastArrivalDecides ==
  [][(Len(inflight) = 1 /\ inflight' = <<>>) =>
       IF inflight[1].stage = "json" /\ inflight[1].body \in ScoreResults
       THEN result' = inflight[1].body /\ calcError' = ""
       ELSE calcError' # "" /\ result' = Null]_vars

\* two requests are in flight at once
C11_TwoInFlight == Len(inflight) = 2

====
